---- MODULE Spec2Model ----
(***************************************************************************)
(* A model of templates/app.py: a FastAPI backend over two SQLite files.   *)
(*                                                                         *)
(*   Spec          the server as uvicorn runs it: one event loop, so the   *)
(*                 handlers api_query, api_schema and the startup seeding  *)
(*                 run one at a time, each to completion.                  *)
(*   ConcSpec      query_database called from NumProcs threads at once,    *)
(*                 interleaved at the three places where a call touches    *)
(*                 the connection: connect, execute/fetch, close.          *)
(*   FairConcSpec  ConcSpec with every thread scheduled again and again.   *)
(*   ClassifySpec  the column-type classification of get_schema applied to *)
(*                 declared type strings.                                  *)
(*                                                                         *)
(* Python's None is the empty tuple and a present optional value x is the  *)
(* one-element tuple <<x>>.  A str that the code inspects character by     *)
(* character (a declared column type) is a tuple of one-character strings; *)
(* every other str is a TLA+ string.                                       *)
(***************************************************************************)
EXTENDS Integers, Sequences, FiniteSets, TLC

VARIABLES
    files,      \* path -> table name -> None | <<[columns, rows]>> : the committed content on disk
    request,    \* None | <<[route, body]>> : the request the server has accepted (Spec)
    last,       \* what the handler that ran last did and answered (Spec)
    lock,       \* path -> 0 | the thread whose connection holds the file's write lock
    pc,         \* thread -> "idle" | "connected" | "executed" | "done"
    call,       \* thread -> None | <<[db_name, query]>> : the arguments of its query_database call
    conn,       \* thread -> None | <<connection>> : the local variable conn of its call
    exc,        \* thread -> None | <<[cls, msg]>> : the exception raised inside its try block
    ret,        \* thread -> None | <<outcome>> : what its call returns or raises
    colType,    \* None | <<row[2]>> : the type cell of a PRAGMA table_info row (ClassifySpec)
    badge       \* None | <<[col_type, color_class]>> : what get_schema computes from it

vars == <<files, request, last, lock, pc, call, conn, exc, ret, colType, badge>>

None == <<>>
Some(x) == <<x>>

\* ------------------------------------------------------------------ bounds
NumProcs == 2      \* threads calling query_database at once (ConcSpec)
MaxFrags == 2      \* fragments a declared type string is put together from

\* ------------------------------------------------- declared type strings
LowerCase == <<"a","b","c","d","e","f","g","h","i","j","k","l","m",
               "n","o","p","q","r","s","t","u","v","w","x","y","z">>
UpperCase == <<"A","B","C","D","E","F","G","H","I","J","K","L","M",
               "N","O","P","Q","R","S","T","U","V","W","X","Y","Z">>

\* str.upper() on one character
UpperChar(c) ==
    IF \E i \in 1..Len(LowerCase) : LowerCase[i] = c
    THEN UpperCase[CHOOSE i \in 1..Len(LowerCase) : LowerCase[i] = c]
    ELSE c

\* str.upper()
Upper(s) == [i \in 1..Len(s) |-> UpperChar(s[i])]

\* keyword in col_type : substring test
Contains(s, k) ==
    \E i \in 0..(Len(s) - Len(k)) : SubSeq(s, i + 1, i + Len(k)) = k

K_INT  == <<"I","N","T">>
K_REAL == <<"R","E","A","L">>
K_NUM  == <<"N","U","M">>
K_CHAR == <<"C","H","A","R">>
K_TEXT == <<"T","E","X","T">>
K_CLOB == <<"C","L","O","B">>
K_DATE == <<"D","A","T","E">>
K_TIME == <<"T","I","M","E">>
K_BLOB == <<"B","L","O","B">>
K_BOOL == <<"B","O","O","L">>

NumericKeywords == {K_INT, K_REAL, K_NUM}
TextKeywords == {K_CHAR, K_TEXT, K_CLOB}
TemporalKeywords == {K_DATE, K_TIME}
BinaryKeywords == {K_BLOB, K_BOOL}

\* any(keyword in col_type for keyword in [...])
AnyIn(keywords, col_type) == \E k \in keywords : Contains(col_type, k)

\* col_type = row[2].upper() if row[2] else ''
NormalizeType(raw) == IF raw = None \/ raw = Some(<<>>) THEN <<>> ELSE Upper(raw[1])

\* A plausible slip: the precedence of the first two rules exchanged.
ColorClassTextFirst(col_type) ==
    IF AnyIn(TextKeywords, col_type) THEN "success"
    ELSE IF AnyIn(NumericKeywords, col_type) THEN "primary"
    ELSE IF AnyIn(TemporalKeywords, col_type) THEN "warning"
    ELSE IF AnyIn(BinaryKeywords, col_type) THEN "info"
    ELSE "secondary"

\* the if / elif chain choosing the bootstrap colour class
ColorClass(col_type) ==
    IF AnyIn(NumericKeywords, col_type) THEN "primary"
    ELSE IF AnyIn(TextKeywords, col_type) THEN "success"
    ELSE IF AnyIn(TemporalKeywords, col_type) THEN "warning"
    ELSE IF AnyIn(BinaryKeywords, col_type) THEN "info"
    ELSE "secondary"

\* the classification of one PRAGMA table_info row's type cell
ClassifyColumn(raw) ==
    LET col_type == NormalizeType(raw)
    IN  [col_type |-> col_type, color_class |-> ColorClass(col_type)]

\* The pieces the checked type strings are put together from: every keyword,
\* some of them in lower or mixed case, pieces that complete a keyword only
\* across a joint, and text that matches nothing.
Fragments ==
    NumericKeywords \cup TextKeywords \cup TemporalKeywords \cup BinaryKeywords \cup
    { <<"i","n","t">>, <<"T","e","x","t">>, <<"d","a","t","e">>, <<"b","l","O","b">>,
      <<"I","N">>, <<"E","G","E","R">>, <<"F","A","N","C","Y">>, <<"T","Y","P","E">>,
      <<"(","1","0",")">>, <<" ">> }

RECURSIVE Joined(_)
\* the strings made of exactly n fragments
Joined(n) == IF n = 0 THEN {<<>>} ELSE {s \o f : s \in Joined(n - 1), f \in Fragments}

TypeStrings == UNION {Joined(n) : n \in 0..MaxFrags}

\* row[2] as the driver hands it over: a string, possibly empty, or None
TypeInputs == {None} \cup {Some(s) : s \in TypeStrings}

\* ------------------------------------------------------------ the registry
\* DATABASES: logical name -> SQLite file
DATABASES == [flights |-> "flights.db", transactions |-> "transactions.db"]

\* for db_name, db_path in DATABASES.items(): insertion order
DatabaseOrder == <<"flights", "transactions">>

Paths == {DATABASES[n] : n \in DOMAIN DATABASES}

\* ------------------------------------------------------- tables and rows
T_INTEGER == <<"I","N","T","E","G","E","R">>
T_TEXT == <<"T","E","X","T">>
T_REAL == <<"R","E","A","L">>
T_INT == <<"I","N","T">>

Col(name, type) == [name |-> name, type |-> type]

\* CREATE TABLE flights (...)
FlightsColumns ==
    << Col("flight_id", T_INTEGER), Col("airline", T_TEXT), Col("origin", T_TEXT),
       Col("destination", T_TEXT), Col("departure_date", T_TEXT),
       Col("arrival_date", T_TEXT), Col("status", T_TEXT), Col("price", T_REAL) >>

\* flights_data (a REAL cell is written as its literal)
flights_data ==
    << <<"Air Blue", "São Paulo", "Rio de Janeiro", "2025-01-10", "2025-01-10", "On Time", "150.0">>,
       <<"Air Green", "Rio de Janeiro", "São Paulo", "2025-01-11", "2025-01-11", "Delayed", "200.0">>,
       <<"Air Red", "Brasília", "São Paulo", "2025-02-05", "2025-02-05", "Cancelled", "300.0">>,
       <<"Air Blue", "São Paulo", "Brasília", "2025-03-15", "2025-03-15", "On Time", "220.0">>,
       <<"Air Green", "Curitiba", "São Paulo", "2025-04-20", "2025-04-20", "On Time", "180.0">>,
       <<"Air Red", "São Paulo", "Curitiba", "2025-05-30", "2025-05-30", "On Time", "160.0">>,
       <<"Air Yellow", "Rio de Janeiro", "Brasília", "2025-06-12", "2025-06-12", "Delayed", "250.0">>,
       <<"Air Blue", "Brasília", "Rio de Janeiro", "2025-07-22", "2025-07-22", "On Time", "210.0">>,
       <<"Air Yellow", "Curitiba", "Rio de Janeiro", "2025-08-05", "2025-08-05", "Cancelled", "230.0">>,
       <<"Air Green", "São Paulo", "Curitiba", "2025-09-10", "2025-09-10", "On Time", "190.0">> >>

\* CREATE TABLE transactions (...)
TransactionsColumns ==
    << Col("transaction_id", T_INTEGER), Col("date", T_TEXT), Col("merchant", T_TEXT),
       Col("category", T_TEXT), Col("amount", T_REAL), Col("card_type", T_TEXT),
       Col("location", T_TEXT) >>

\* transactions_data
transactions_data ==
    << <<"2025-01-15", "Supermercado SP", "Groceries", "120.50", "Visa", "São Paulo">>,
       <<"2025-01-20", "Restaurante RJ", "Dining", "80.75", "MasterCard", "Rio de Janeiro">>,
       <<"2025-02-12", "Posto de Gasolina", "Fuel", "50.00", "Visa", "Brasília">>,
       <<"2025-02-28", "Loja de Roupas", "Clothing", "200.00", "Amex", "Curitiba">>,
       <<"2025-03-10", "Cinema SP", "Entertainment", "45.00", "Visa", "São Paulo">>,
       <<"2025-04-05", "Farmácia RJ", "Pharmacy", "60.00", "MasterCard", "Rio de Janeiro">>,
       <<"2025-05-14", "Academia", "Fitness", "120.00", "Amex", "São Paulo">>,
       <<"2025-06-18", "Livraria", "Books", "75.25", "Visa", "Brasília">>,
       <<"2025-07-07", "Hotel", "Travel", "500.00", "MasterCard", "Curitiba">>,
       <<"2025-08-19", "Loja Eletrônica", "Electronics", "350.00", "Amex", "São Paulo">>,
       <<"2025-09-30", "Restaurante Brasília", "Dining", "90.00", "Visa", "Brasília">>,
       <<"2025-10-05", "Supermercado RJ", "Groceries", "130.75", "MasterCard", "Rio de Janeiro">>,
       <<"2025-10-15", "Festa", "Entertainment", "200.00", "Amex", "São Paulo">>,
       <<"2025-11-01", "Serviços", "Utilities", "180.00", "Visa", "Curitiba">>,
       <<"2025-11-20", "Transporte", "Transport", "30.50", "MasterCard", "Rio de Janeiro">> >>

\* The tables a file of this model can hold.  sqlite_sequence is the catalog
\* table the engine keeps for AUTOINCREMENT; o'hare is a table a caller
\* creates through query_database.
UserTables == {"flights", "transactions", "o'hare"}
TableNames == UserTables \cup {"sqlite_sequence"}

\* the catalog's order of the tables (sqlite_master is read in this order)
CatalogOrder == <<"flights", "transactions", "sqlite_sequence", "o'hare">>

Table(columns, rows) == Some([columns |-> columns, rows |-> rows])

\* a database file that holds nothing yet
EmptyFile == [t \in TableNames |-> None]

\* ------------------------------------------------------------ statements
\* The SQL texts callers submit, with what the driver and the engine make of
\* each: first is the first keyword (all the driver looks at), kind and table
\* are the engine's reading of the statement.
Stmt(text, first, kind, table) == [text |-> text, first |-> first, kind |-> kind, table |-> table]

StatementTable ==
    { Stmt("SELECT * FROM flights", "SELECT", "SELECT", "flights"),
      Stmt("SELECT * FROM transactions", "SELECT", "SELECT", "transactions"),
      Stmt("SELECT COUNT(*) AS n FROM flights", "SELECT", "COUNT", "flights"),
      Stmt("INSERT INTO flights VALUES (11, 'Air Red', 'Curitiba', 'Brasília', '2025-10-01', '2025-10-01', 'On Time', 175.0)",
           "INSERT", "INSERT", "flights"),
      Stmt("WITH v AS (SELECT 1) INSERT INTO flights VALUES (11, 'Air Red', 'Curitiba', 'Brasília', '2025-10-01', '2025-10-01', 'On Time', 175.0)",
           "WITH", "INSERT", "flights"),
      Stmt("WITH v AS (SELECT 1) INSERT INTO transactions VALUES (16, '2025-12-01', 'Padaria', 'Groceries', 12.00, 'Visa', 'Curitiba')",
           "WITH", "INSERT", "transactions"),
      Stmt("UPDATE flights SET status = 'Cancelled'", "UPDATE", "UPDATE", "flights"),
      Stmt("DELETE FROM flights", "DELETE", "DELETE", "flights"),
      Stmt("WITH v AS (SELECT 1) DELETE FROM flights", "WITH", "DELETE", "flights"),
      Stmt("DROP TABLE flights", "DROP", "DROP", "flights"),
      Stmt("DROP TABLE transactions", "DROP", "DROP", "transactions"),
      Stmt("CREATE TABLE [o'hare] (code INT)", "CREATE", "CREATE", "o'hare"),
      Stmt("SELEC 1", "SELEC", "INVALID", "") }

Queries == {s.text : s \in StatementTable}

Parse(query) == CHOOSE s \in StatementTable : s.text = query

\* the row an INSERT statement above adds to its table
NewRow(table) ==
    IF table = "flights"
    THEN <<11, "Air Red", "Curitiba", "Brasília", "2025-10-01", "2025-10-01", "On Time", "175.0">>
    ELSE <<16, "2025-12-01", "Padaria", "Groceries", "12.00", "Visa", "Curitiba">>

\* the column an UPDATE statement above sets, and the value it sets
UpdateColumn(table) == IF table = "flights" THEN 7 ELSE 6
UpdateValue(table) == IF table = "flights" THEN "Cancelled" ELSE "Visa"

\* the columns of CREATE TABLE [o'hare] (code INT)
CreatedColumns == << Col("code", T_INT) >>

WriteKinds == {"INSERT", "UPDATE", "DELETE", "DROP", "CREATE"}

\* ------------------------------------------- the driver and the engine
\* An exception object: its class and str(e).
Exc(cls, msg) == [cls |-> cls, msg |-> msg]

\* sqlite3.connect(path) followed by conn.row_factory = sqlite3.Row.
\* pending is the file content as this connection's open transaction sees it.
Connection(path) ==
    [path |-> path, row_factory |-> "Row", closed |-> FALSE,
     in_transaction |-> FALSE, pending |-> None]

\* get_connection(db_name): {exc, conn}
get_connection(db_name) ==
    IF db_name \notin DOMAIN DATABASES
    THEN [exc |-> Some(Exc("ValueError", "Database '" \o db_name \o "' not found.")),
          conn |-> None]
    ELSE [exc |-> None, conn |-> Some(Connection(DATABASES[db_name]))]

\* what the connection reads: its own uncommitted changes, else the file
View(c, tables) == IF c.pending # None THEN c.pending[1] ELSE tables

\* one entry of cursor.description: a 7-tuple whose first item is the name
Describe(name) == <<name, None, None, None, None, None, None>>

\* a sqlite3.Row built by the row factory
Row(keys, cells) == [keys |-> keys, cells |-> cells]

ColumnNames(table) == [i \in 1..Len(table.columns) |-> table.columns[i].name]

\* compiling the statement: the message of the error it ends in, or None
PrepareError(tables, s) ==
    IF s.kind = "INVALID" THEN Some("near \"SELEC\": syntax error")
    ELSE IF s.kind = "CREATE"
    THEN IF tables[s.table] # None
         THEN Some("table [" \o s.table \o "] already exists") ELSE None
    ELSE IF tables[s.table] = None THEN Some("no such table: " \o s.table)
    ELSE None

\* Running a compiled statement to completion on the content `tables`:
\* {exc, tables, description, rows}.  description is None for a statement
\* without a result set; rows are the raw result rows in the engine's order.
StepEffect(tables, s) ==
    LET t == s.table
        old == tables[t][1]
        keep(rows) == [tables EXCEPT ![t] = Table(old.columns, rows)]
        res(e, tb, d, r) == [exc |-> e, tables |-> tb, description |-> d, rows |-> r]
    IN  CASE s.kind = "SELECT" ->
               res(None, tables,
                   Some([i \in 1..Len(old.columns) |-> Describe(old.columns[i].name)]),
                   old.rows)
          [] s.kind = "COUNT" ->
               res(None, tables, Some(<<Describe("n")>>), << <<Len(old.rows)>> >>)
          [] s.kind = "INSERT" ->
               IF \E i \in 1..Len(old.rows) : old.rows[i][1] = NewRow(t)[1]
               THEN res(Some(Exc("IntegrityError",
                                 "UNIQUE constraint failed: " \o t \o "." \o old.columns[1].name)),
                        tables, None, <<>>)
               ELSE res(None, keep(Append(old.rows, NewRow(t))), None, <<>>)
          [] s.kind = "UPDATE" ->
               res(None,
                   keep([i \in 1..Len(old.rows) |->
                            [old.rows[i] EXCEPT ![UpdateColumn(t)] = UpdateValue(t)]]),
                   None, <<>>)
          [] s.kind = "DELETE" -> res(None, keep(<<>>), None, <<>>)
          [] s.kind = "DROP" -> res(None, [tables EXCEPT ![t] = None], None, <<>>)
          [] s.kind = "CREATE" ->
               res(None, [tables EXCEPT ![t] = Table(CreatedColumns, <<>>)], None, <<>>)

\* The driver's test for opening a transaction before a statement: it looks
\* at the statement's first keyword only.
is_dml(s) == s.first \in {"INSERT", "UPDATE", "DELETE", "REPLACE"}

\* cur.execute(query); cur.fetchall() on connection c, with `tables` the
\* committed content of c's file and lockedByOther telling whether another
\* connection holds the file's write lock:
\* {exc, conn, tables, holds, description, rows}.
\* The statement is compiled first.  Before a DML statement the driver opens
\* a transaction, which nothing in query_database commits; any other
\* statement runs in autocommit mode and is on disk when execute returns.
\* A statement that writes needs the write lock, and fails with "database is
\* locked" when another connection holds it.
Execute(c, tables, lockedByOther, query) ==
    LET s == Parse(query)
        view == View(c, tables)
        perr == PrepareError(view, s)
        inTxn == c.in_transaction \/ is_dml(s)
        writes == s.kind \in WriteKinds
        eff == StepEffect(view, s)
        out(e, cn, tb, h, d, r) ==
            [exc |-> e, conn |-> cn, tables |-> tb, holds |-> h,
             description |-> d, rows |-> r]
    IN  IF perr # None
        THEN out(Some(Exc("OperationalError", perr[1])), c, tables, FALSE, None, <<>>)
        ELSE IF writes /\ lockedByOther
        THEN out(Some(Exc("OperationalError", "database is locked")),
                 [c EXCEPT !.in_transaction = inTxn], tables, FALSE, None, <<>>)
        ELSE IF eff.exc # None
        THEN out(eff.exc, [c EXCEPT !.in_transaction = inTxn], tables, inTxn, None, <<>>)
        ELSE IF ~writes
        THEN out(None, c, tables, FALSE, eff.description,
                 [i \in 1..Len(eff.rows) |->
                     Row([j \in 1..Len(eff.description[1]) |-> eff.description[1][j][1]],
                         eff.rows[i])])
        ELSE IF inTxn
        THEN out(None, [c EXCEPT !.in_transaction = TRUE, !.pending = Some(eff.tables)],
                 tables, TRUE, None, <<>>)
        ELSE out(None, c, eff.tables, FALSE, None, <<>>)

\* conn.commit(): {conn, tables}
Commit(c, tables) ==
    [conn |-> [c EXCEPT !.in_transaction = FALSE, !.pending = None],
     tables |-> View(c, tables)]

\* conn.close(): an open transaction is rolled back
Close(c) == [c EXCEPT !.closed = TRUE, !.in_transaction = FALSE, !.pending = None]

\* ------------------------------------------------------- query_database
\* how a call ends: it returns a value or raises an exception
Return(v) == [raised |-> FALSE, exc |-> None, value |-> Some(v)]
Raise(e) == [raised |-> TRUE, exc |-> Some(e), value |-> None]

\* column_names = [description[0] for description in cur.description] if cur.description else []
column_names(description) ==
    IF description # None /\ description # Some(<<>>)
    THEN [i \in 1..Len(description[1]) |-> description[1][i][1]]
    ELSE <<>>

\* data = [list(row) for row in rows]
data_of(rows) == [i \in 1..Len(rows) |-> rows[i].cells]

\* A plausible slip: the last row is lost (an off-by-one in the materialization).
SuccessEnvelopeDropsLast(description, rows) ==
    [success |-> TRUE, columns |-> column_names(description),
     data |-> data_of(SubSeq(rows, 1, Len(rows) - 1)), error |-> None]

\* the dictionary returned from the try block
SuccessEnvelope(description, rows) ==
    [success |-> TRUE, columns |-> column_names(description),
     data |-> data_of(rows), error |-> None]

\* A plausible slip: the failure envelope carries no message.
ErrorEnvelopeNoMessage(e) ==
    [success |-> FALSE, columns |-> <<>>, data |-> <<>>, error |-> None]

\* the dictionary returned from the except block
ErrorEnvelope(e) ==
    [success |-> FALSE, columns |-> <<>>, data |-> <<>>, error |-> Some(e.msg)]

\* the classes `except sqlite3.Error` catches: sqlite3.Error and its subclasses
SqliteErrorClasses ==
    {"Error", "InterfaceError", "DatabaseError", "DataError", "OperationalError",
     "IntegrityError", "InternalError", "ProgrammingError", "NotSupportedError"}

\* A plausible slip: the handler catches sqlite3.OperationalError only.
IsSqliteErrorOperationalOnly(cls) == cls = "OperationalError"

IsSqliteError(cls) == cls \in SqliteErrorClasses

\* except sqlite3.Error as e: ... ; any other exception leaves the function
ExceptHandler(e) ==
    IF IsSqliteError(e.cls) THEN Return(ErrorEnvelope(e)) ELSE Raise(e)

\* A plausible slip: no finally block, the connection is left as it is.
FinallyWithoutClose(connOpt) == connOpt

\* finally: if 'conn' in locals(): conn.close()
Finally(connOpt) == IF connOpt # None THEN Some(Close(connOpt[1])) ELSE None

IsOpen(connOpt) == connOpt # None /\ ~connOpt[1].closed

\* One whole call of query_database on the committed content fs of all files,
\* with no other connection at work: {outcome, files, opened, open}.
query_database(db_name, query, fs) ==
    LET gc == get_connection(db_name)
    IN  IF gc.exc # None
        THEN [outcome |-> ExceptHandler(gc.exc[1]), files |-> fs, opened |-> 0,
              open |-> IF IsOpen(Finally(None)) THEN 1 ELSE 0]
        ELSE LET path == gc.conn[1].path
                 ex == Execute(gc.conn[1], fs[path], FALSE, query)
                 outcome == IF ex.exc # None THEN ExceptHandler(ex.exc[1])
                            ELSE Return(SuccessEnvelope(ex.description, ex.rows))
             IN  [outcome |-> outcome, files |-> [fs EXCEPT ![path] = ex.tables],
                  opened |-> 1,
                  open |-> IF IsOpen(Finally(Some(ex.conn))) THEN 1 ELSE 0]

\* ------------------------------------------------------------ get_schema
\* name NOT LIKE 'sqlite_%'
IsInternalName(t) == t \in {"sqlite_sequence"}

\* SELECT name FROM sqlite_master WHERE type='table' AND name NOT LIKE 'sqlite_%'
ListTables(tables) ==
    SelectSeq(CatalogOrder, LAMBDA t : tables[t] # None /\ ~IsInternalName(t))

\* the names that hold a single quote
NamesWithQuote == {"o'hare"}

\* cur.execute(f"PRAGMA table_info('{table}')"); cur.fetchall(): {exc, rows}.
\* The name is pasted between single quotes, so a name that holds a single
\* quote makes a statement the engine cannot compile.  A row is
\* (cid, name, type, notnull, dflt_value, pk).
TableInfo(tables, t) ==
    IF t \in NamesWithQuote
    THEN [exc |-> Some(Exc("OperationalError", "near \"hare\": syntax error")), rows |-> <<>>]
    ELSE [exc |-> None,
          rows |-> [i \in 1..Len(tables[t][1].columns) |->
                      <<i - 1, tables[t][1].columns[i].name,
                        Some(tables[t][1].columns[i].type), 0, None,
                        IF i = 1 /\ t \in {"flights", "transactions"} THEN 1 ELSE 0>>]]

\* html_repr = f"{col_name} <span class='badge bg-{color_class} ms-1'>{col_type}</span>"
html_repr(row) ==
    LET c == ClassifyColumn(row[3]) IN <<row[2], c.color_class, c.col_type>>

\* columns_with_types for one table
columns_with_types(rows) == [i \in 1..Len(rows) |-> html_repr(rows[i])]

RECURSIVE SchemaFrom(_, _, _, _, _)
\* The loop over DATABASES.items() from its i-th entry on:
\* {raised, exc, schema, opened, closed}.  conn.close() is the last statement
\* of the loop body, reached only when nothing in the body raised.
SchemaFrom(i, fs, schema, opened, closed) ==
    IF i > Len(DatabaseOrder)
    THEN [raised |-> FALSE, exc |-> None, schema |-> schema,
          opened |-> opened, closed |-> closed]
    ELSE LET db_name == DatabaseOrder[i]
             tables == fs[DATABASES[db_name]]
             names == ListTables(tables)
             failing == {j \in 1..Len(names) : TableInfo(tables, names[j]).exc # None}
         IN  IF failing # {}
             THEN LET j == CHOOSE k \in failing : \A m \in failing : k <= m
                  IN  [raised |-> TRUE, exc |-> TableInfo(tables, names[j]).exc,
                       schema |-> schema, opened |-> opened + 1, closed |-> closed]
             ELSE SchemaFrom(i + 1, fs,
                             schema @@ (db_name :>
                                 [t \in {names[j] : j \in 1..Len(names)} |->
                                     columns_with_types(TableInfo(tables, t).rows)]),
                             opened + 1, closed + 1)

\* get_schema()
get_schema(fs) == SchemaFrom(1, fs, <<>>, 0, 0)

\* ---------------------------------------------- create_example_databases
\* the engine's own table behind AUTOINCREMENT (its rows are not modelled)
SequenceTable == Table(<<Col("name", <<>>), Col("seq", <<>>)>>, <<>>)

\* A plausible slip: no DROP TABLE IF EXISTS (and CREATE TABLE IF NOT EXISTS),
\* so the rows are added to the ones the table holds.
SeedFileWithoutDrop(path, tables, t, columns, rows) ==
    LET c0 == Connection(path)
        old == IF tables[t] = None THEN <<>> ELSE tables[t][1].rows
        created == [tables EXCEPT ![t] = Table(columns, old),
                                  !["sqlite_sequence"] = SequenceTable]
        inserted == [created EXCEPT ![t] =
                        Table(columns,
                              old \o [i \in 1..Len(rows) |-> <<Len(old) + i>> \o rows[i]])]
        c1 == [c0 EXCEPT !.in_transaction = TRUE, !.pending = Some(inserted)]
        done == Commit(c1, created)
    IN  [tables |-> done.tables, conn |-> Close(done.conn)]

\* The seeding of one file: DROP TABLE IF EXISTS and CREATE TABLE run in
\* autocommit mode, executemany opens a transaction and conn.commit() ends it.
\* AUTOINCREMENT numbers the rows of the new table from 1.
SeedFile(path, tables, t, columns, rows) ==
    LET c0 == Connection(path)
        dropped == [tables EXCEPT ![t] = None]
        created == [dropped EXCEPT ![t] = Table(columns, <<>>),
                                   !["sqlite_sequence"] = SequenceTable]
        inserted == [created EXCEPT ![t] =
                        Table(columns, [i \in 1..Len(rows) |-> <<i>> \o rows[i]])]
        c1 == [c0 EXCEPT !.in_transaction = TRUE, !.pending = Some(inserted)]
        done == Commit(c1, created)
    IN  [tables |-> done.tables, conn |-> Close(done.conn)]

\* create_example_databases(): {files, opened, open}
create_example_databases(fs) ==
    LET f == SeedFile(DATABASES["flights"], fs[DATABASES["flights"]],
                      "flights", FlightsColumns, flights_data)
        t == SeedFile(DATABASES["transactions"], fs[DATABASES["transactions"]],
                      "transactions", TransactionsColumns, transactions_data)
    IN  [files |-> [fs EXCEPT ![DATABASES["flights"]] = f.tables,
                              ![DATABASES["transactions"]] = t.tables],
         opened |-> 2,
         open |-> (IF f.conn.closed THEN 0 ELSE 1) + (IF t.conn.closed THEN 0 ELSE 1)]

\* -------------------------------------------------------------- api_query
\* `not x` for a value of the request body: None and '' are falsy
Falsy(x) == x = None \/ x = Some("")

\* A plausible slip: only an absent field is rejected, an empty one passes.
RejectsAbsentOnly(db_name, query) == db_name = None \/ query = None

\* if not db_name or not query
Rejects(db_name, query) == Falsy(db_name) \/ Falsy(query)

\* The handler of POST /api/query on a parsed request body:
\* {status, invoked, outcome, files, opened, open}.  body.get on a body that
\* is no JSON object raises, and so does query_database for some arguments;
\* the framework answers an exception that is no HTTPException with 500.
api_query(body, fs) ==
    LET out(st, inv, oc, f, o, op) ==
            [status |-> st, invoked |-> inv, outcome |-> oc, files |-> f,
             opened |-> o, open |-> op]
    IN  IF ~body.isObject
        THEN out(500, None, None, fs, 0, 0)
        ELSE IF Rejects(body.db, body.query)
        THEN out(400, None, None, fs, 0, 0)
        ELSE LET r == query_database(body.db[1], body.query[1], fs)
             IN  out(IF r.outcome.raised THEN 500 ELSE 200,
                     Some([db_name |-> body.db[1], query |-> body.query[1]]),
                     Some(r.outcome), r.files, r.opened, r.open)

\* ----------------------------------------------------------------- inputs
\* the values of the body's 'db' field: absent, empty, registered, unregistered
DbFieldValues == {None, Some(""), Some("flights"), Some("transactions"), Some("nope")}

\* the values of the body's 'query' field
QueryFieldValues == {None, Some("")} \cup {Some(q) : q \in Queries}

\* the parsed request bodies: JSON objects, and one body that is no object
Bodies ==
    {[isObject |-> FALSE, db |-> None, query |-> None]} \cup
    [isObject : {TRUE}, db : DbFieldValues, query : QueryFieldValues]

\* the threads of ConcSpec and what they call query_database with
Procs == 1..NumProcs
ConcDbNames == {"flights", "nope"}
ConcQueries ==
    {s.text : s \in {x \in StatementTable :
                        /\ x.table \in {"flights", ""}
                        /\ x.kind \in {"SELECT", "INSERT", "DROP", "INVALID"}}}

\* ------------------------------------------------------------ the states
\* the files as the seeding at the server's start leaves them
SeededFiles == create_example_databases([p \in Paths |-> EmptyFile]).files

NoHandler ==
    [handler |-> "none", body |-> None, status |-> 0, invoked |-> None,
     outcome |-> None, opened |-> 0, open |-> 0, before |-> None]

Init ==
    /\ files = SeededFiles
    /\ request = None
    /\ last = NoHandler
    /\ lock = [p \in Paths |-> 0]
    /\ pc = [p \in Procs |-> "idle"]
    /\ call = [p \in Procs |-> None]
    /\ conn = [p \in Procs |-> None]
    /\ exc = [p \in Procs |-> None]
    /\ ret = [p \in Procs |-> None]
    /\ colType = None
    /\ badge = None

\* ClassifySpec starts with a declared type at hand and nothing computed
ClassifyInit ==
    /\ files = SeededFiles
    /\ request = None
    /\ last = NoHandler
    /\ lock = [p \in Paths |-> 0]
    /\ pc = [p \in Procs |-> "idle"]
    /\ call = [p \in Procs |-> None]
    /\ conn = [p \in Procs |-> None]
    /\ exc = [p \in Procs |-> None]
    /\ ret = [p \in Procs |-> None]
    /\ colType \in {Some(raw) : raw \in TypeInputs}
    /\ badge = None

threadVars == <<lock, pc, call, conn, exc, ret>>
classifyVars == <<colType, badge>>
serverVars == <<request, last>>

\* ------------------------------------------------- Spec: the server
\* the event loop accepts the next request
Receive ==
    /\ request = None
    /\ last = NoHandler
    /\ \/ \E body \in Bodies :
             request' = Some([route |-> "POST /api/query", body |-> Some(body)])
       \/ request' = Some([route |-> "GET /api/schema", body |-> None])
    /\ last' = NoHandler
    /\ UNCHANGED <<files, threadVars, classifyVars>>

\* POST /api/query
ApiQuery ==
    /\ request # None
    /\ request[1].route = "POST /api/query"
    /\ LET body == request[1].body[1]
           r == api_query(body, files)
       IN  /\ files' = r.files
           /\ last' = [handler |-> "api_query", body |-> Some(body), status |-> r.status,
                       invoked |-> r.invoked, outcome |-> r.outcome,
                       opened |-> r.opened, open |-> r.open, before |-> Some(files)]
    /\ request' = None
    /\ UNCHANGED <<threadVars, classifyVars>>

\* GET /api/schema
ApiSchema ==
    /\ request # None
    /\ request[1].route = "GET /api/schema"
    /\ LET r == get_schema(files)
       IN  last' = [handler |-> "api_schema", body |-> None,
                    status |-> IF r.raised THEN 500 ELSE 200, invoked |-> None,
                    outcome |-> Some(IF r.raised THEN Raise(r.exc[1]) ELSE Return(r.schema)),
                    opened |-> r.opened, open |-> r.opened - r.closed,
                    before |-> Some(files)]
    /\ request' = None
    /\ UNCHANGED <<files, threadVars, classifyVars>>

\* The server process is started (again): startup_event calls
\* create_example_databases before a request is served.
Startup ==
    /\ request = None
    /\ last = NoHandler
    /\ LET r == create_example_databases(files)
       IN  /\ files' = r.files
           /\ last' = [handler |-> "startup", body |-> None, status |-> 0, invoked |-> None,
                       outcome |-> None, opened |-> r.opened, open |-> r.open,
                       before |-> Some(files)]
    /\ UNCHANGED <<request, threadVars, classifyVars>>

\* the handler's answer is out (or the seeding is over): the server is idle
Respond ==
    /\ last # NoHandler
    /\ last' = NoHandler
    /\ UNCHANGED <<files, request, threadVars, classifyVars>>

Next == Receive \/ ApiQuery \/ ApiSchema \/ Startup \/ Respond

Spec == Init /\ [][Next]_vars

\* ------------------------------- ConcSpec: concurrent query_database calls
\* conn = get_connection(db_name): the call starts; when get_connection
\* raises, control goes to the handlers with conn unbound
QConnect(p) ==
    /\ pc[p] = "idle"
    /\ \E db_name \in ConcDbNames, query \in ConcQueries :
          LET gc == get_connection(db_name)
          IN  /\ call' = [call EXCEPT ![p] = Some([db_name |-> db_name, query |-> query])]
              /\ conn' = [conn EXCEPT ![p] = gc.conn]
              /\ exc' = [exc EXCEPT ![p] = gc.exc]
              /\ ret' = [ret EXCEPT ![p] =
                            IF gc.exc # None THEN Some(ExceptHandler(gc.exc[1])) ELSE None]
              /\ pc' = [pc EXCEPT ![p] = IF gc.exc # None THEN "finally" ELSE "connected"]
    /\ UNCHANGED <<files, lock, serverVars, classifyVars>>

\* cur.execute(query); rows = cur.fetchall(); and the return statement of the
\* try block or of the except block, whose value waits for the finally block
QExecute(p) ==
    /\ pc[p] = "connected"
    /\ LET c == conn[p][1]
           ex == Execute(c, files[c.path], lock[c.path] \notin {0, p}, call[p][1].query)
       IN  /\ files' = [files EXCEPT ![c.path] = ex.tables]
           /\ lock' = [lock EXCEPT ![c.path] = IF ex.holds THEN p ELSE @]
           /\ conn' = [conn EXCEPT ![p] = Some(ex.conn)]
           /\ exc' = [exc EXCEPT ![p] = ex.exc]
           /\ ret' = [ret EXCEPT ![p] =
                         Some(IF ex.exc # None THEN ExceptHandler(ex.exc[1])
                              ELSE Return(SuccessEnvelope(ex.description, ex.rows)))]
    /\ pc' = [pc EXCEPT ![p] = "finally"]
    /\ UNCHANGED <<call, serverVars, classifyVars>>

\* the finally block; a closed connection gives up the write lock
QFinally(p) ==
    /\ pc[p] = "finally"
    /\ LET after == Finally(conn[p])
       IN  /\ conn' = [conn EXCEPT ![p] = after]
           /\ lock' = [f \in Paths |->
                          IF lock[f] = p /\ ~IsOpen(after) THEN 0 ELSE lock[f]]
    /\ pc' = [pc EXCEPT ![p] = "done"]
    /\ UNCHANGED <<files, call, exc, ret, serverVars, classifyVars>>

\* the caller has the result; the thread is free for its next call
QReturn(p) ==
    /\ pc[p] = "done"
    /\ pc' = [pc EXCEPT ![p] = "idle"]
    /\ call' = [call EXCEPT ![p] = None]
    /\ conn' = [conn EXCEPT ![p] = None]
    /\ exc' = [exc EXCEPT ![p] = None]
    /\ ret' = [ret EXCEPT ![p] = None]
    /\ UNCHANGED <<files, lock, serverVars, classifyVars>>

ConcNext == \E p \in Procs : QConnect(p) \/ QExecute(p) \/ QFinally(p) \/ QReturn(p)

ConcSpec == Init /\ [][ConcNext]_vars

\* a thread that is inside a call keeps running
FairConcSpec ==
    ConcSpec /\ \A p \in Procs : WF_vars(QExecute(p) \/ QFinally(p))

\* ------------------------------------- ClassifySpec: the classification
Classify ==
    /\ colType # None
    /\ badge = None
    /\ badge' = Some(ClassifyColumn(colType[1]))
    /\ UNCHANGED <<colType, files, serverVars, threadVars>>

ClassifyNext == Classify

ClassifySpec == ClassifyInit /\ [][ClassifyNext]_vars

\* ================================================================ claims
FlightsSeedRows == 10
TransactionsSeedRows == 15

\* the envelope the last api_query call got from query_database, if it got one
Returned == last.handler = "api_query" /\ last.outcome # None /\ ~last.outcome[1].raised
Envelope == last.outcome[1].value[1]
Invoked == last.invoked[1]

\* C1: for a database name that is not in the registry, query_database returns
\* an envelope with success = false and a non-empty error; it never raises
\* and never touches another database.
C1_UnknownDatabaseIsAnErrorEnvelope ==
    (/\ last.handler = "api_query"
     /\ last.invoked # None
     /\ Invoked.db_name \notin DOMAIN DATABASES)
    => /\ ~last.outcome[1].raised
       /\ Envelope.success = FALSE
       /\ Envelope.error # None
       /\ Envelope.error # Some("")
       /\ last.opened = 0
       /\ files = last.before[1]

\* C2: for a known database, whenever the engine fails while executing or
\* fetching the statement, query_database returns exactly
\* {success: false, columns: [], data: [], error: the engine's message} and
\* raises nothing.
C2_EngineErrorBecomesEnvelope ==
    \A p \in Procs :
        (/\ pc[p] \in {"finally", "done"}
         /\ call[p][1].db_name \in DOMAIN DATABASES
         /\ exc[p] # None)
        => ret[p] = Some(Return([success |-> FALSE, columns |-> <<>>, data |-> <<>>,
                                 error |-> Some(exc[p][1].msg)]))

\* a call that found the file locked by another call has returned
C2_Witness ==
    \E p \in Procs :
        /\ pc[p] = "done"
        /\ call[p][1].db_name \in DOMAIN DATABASES
        /\ exc[p] = Some(Exc("OperationalError", "database is locked"))
        /\ ~ret[p][1].raised

OpenConnections == Cardinality({p \in Procs : IsOpen(conn[p])})

\* C3: every query_database call has closed the connection it opened when it
\* returns, on every path; when all the concurrent calls have returned no
\* connection is open and no lock is held; and every call that has started
\* does return: whatever the other threads hold, a thread inside a call can
\* take its next step, and each step takes it nearer to the return.
C3_ConnectionsClosedAndCallsReturn ==
    /\ [](\A p \in Procs : pc[p] \in {"done", "idle"} => ~IsOpen(conn[p]))
    /\ []((\A p \in Procs : pc[p] \in {"done", "idle"})
            => (OpenConnections = 0 /\ \A f \in Paths : lock[f] = 0))
    /\ [](\A p \in Procs :
            pc[p] \in {"connected", "finally"} => ENABLED (QExecute(p) \/ QFinally(p)))
    /\ [][\A p \in Procs :
            /\ pc[p] = "connected" => pc'[p] \in {"connected", "finally"}
            /\ pc[p] = "finally" => pc'[p] \in {"finally", "done"}]_vars

\* The same end of every call as a liveness property of FairConcSpec.
CallsReturn ==
    \A p \in Procs : (pc[p] \in {"connected", "finally"}) ~> (pc[p] = "done")

\* all the threads have returned from calls that overlapped: one wrote, and
\* another was refused the write lock meanwhile
C3_Witness ==
    /\ \A p \in Procs : pc[p] = "done"
    /\ \E p \in Procs : ~ret[p][1].raised /\ ret[p][1].value[1].success
    /\ \E p \in Procs : exc[p] = Some(Exc("OperationalError", "database is locked"))
    /\ OpenConnections = 0

\* C4: get_schema opens exactly one connection per database of the registry
\* and has closed each of them when it exits, whether it returns or raises.
C4_SchemaClosesEveryConnection ==
    last.handler = "api_schema"
    => /\ last.opened = Cardinality(DOMAIN DATABASES)
       /\ last.open = 0

\* C5: in every envelope query_database returns, success = true exactly when
\* error is None, and success = false exactly when columns and data are empty
\* and error is present.
C5_EnvelopeInvariant ==
    Returned
    => /\ Envelope.success \in BOOLEAN
       /\ Envelope.success <=> Envelope.error = None
       /\ ~Envelope.success <=>
              (Envelope.columns = <<>> /\ Envelope.data = <<>> /\ Envelope.error # None)

\* a successful SELECT that found no row
C5_Witness ==
    /\ Returned
    /\ Envelope.success
    /\ Envelope.columns # <<>>
    /\ Envelope.data = <<>>

\* C6: the class get_schema gives a declared type is the first that matches
\* the upper-cased type (None counting as ''): INT, REAL or NUM -> primary;
\* else CHAR, TEXT or CLOB -> success; else DATE or TIME -> warning; else BLOB
\* or BOOL -> info; otherwise secondary.
C6_ClassificationFollowsPrecedence ==
    badge # None
    => LET raw == colType[1]
           u == IF raw = None THEN <<>> ELSE Upper(raw[1])
           has(K) == \E k \in K : \E i \in 1..Len(u) :
                        i + Len(k) - 1 <= Len(u) /\ \A j \in 1..Len(k) : u[i + j - 1] = k[j]
           b == badge[1].color_class
       IN  /\ badge[1].col_type = u
           /\ has(NumericKeywords) => b = "primary"
           /\ (~has(NumericKeywords) /\ has(TextKeywords)) => b = "success"
           /\ (~has(NumericKeywords) /\ ~has(TextKeywords) /\ has(TemporalKeywords))
                 => b = "warning"
           /\ (/\ ~has(NumericKeywords) /\ ~has(TextKeywords)
               /\ ~has(TemporalKeywords) /\ has(BinaryKeywords)) => b = "info"
           /\ (/\ ~has(NumericKeywords) /\ ~has(TextKeywords)
               /\ ~has(TemporalKeywords) /\ ~has(BinaryKeywords)) => b = "secondary"
           /\ raw = Some(<<"I","N","T","E","G","E","R">>) => b = "primary"
           /\ raw = Some(<<"T","E","X","T">>) => b = "success"
           /\ raw = Some(<<"D","A","T","E">>) => b = "warning"
           /\ raw = Some(<<"B","L","O","B">>) => b = "info"
           /\ raw \in {None, Some(<<>>), Some(<<"F","A","N","C","Y","T","Y","P","E">>)}
                 => b = "secondary"

\* a mixed-case type that matches the first and the second rule is classified
C6_Witness ==
    /\ badge # None
    /\ colType[1] = Some(<<"T","e","x","t","i","n","t">>)

RowsOf(fs, db_name, t) == fs[DATABASES[db_name]][t][1].rows

\* C8: after create_example_databases, whatever the files held before, the
\* flights table holds exactly 10 rows and the transactions table exactly 15,
\* none of them twice.
C8_SeedingIsIdempotent ==
    last.handler = "startup"
    => LET f == RowsOf(files, "flights", "flights")
           t == RowsOf(files, "transactions", "transactions")
       IN  /\ Len(f) = FlightsSeedRows
           /\ Len(t) = TransactionsSeedRows
           /\ \A i, j \in 1..Len(f) : i # j => f[i] # f[j]
           /\ \A i, j \in 1..Len(t) : i # j => t[i] # t[j]
           /\ f = RowsOf(SeededFiles, "flights", "flights")
           /\ t = RowsOf(SeededFiles, "transactions", "transactions")

\* the seeding ran on files where a row had been added to flights and the
\* transactions table had been dropped
C8_Witness ==
    /\ last.handler = "startup"
    /\ last.before[1][DATABASES["flights"]]["flights"] # None
    /\ Len(RowsOf(last.before[1], "flights", "flights")) = FlightsSeedRows + 1
    /\ last.before[1][DATABASES["transactions"]]["transactions"] = None

\* C9: a statement that executes successfully on a known database returns
\* success = true with the engine's column names in order ([] when there is
\* no result set) and every result row, in order, cell by cell.
C9_SuccessCarriesTheWholeResult ==
    (/\ last.handler = "api_query"
     /\ last.invoked # None
     /\ Invoked.db_name \in DOMAIN DATABASES)
    => LET s == Parse(Invoked.query)
           tables == last.before[1][DATABASES[Invoked.db_name]]
           ok == Returned /\ Envelope.success
       IN  /\ (s.kind \in {"SELECT", "COUNT"} /\ tables[s.table] # None) => ok
           /\ (ok /\ s.kind = "SELECT")
                 => /\ Envelope.columns = ColumnNames(tables[s.table][1])
                    /\ Envelope.data = tables[s.table][1].rows
           /\ (ok /\ s.kind = "COUNT")
                 => /\ Envelope.columns = <<"n">>
                    /\ Envelope.data = << <<Len(tables[s.table][1].rows)>> >>
           /\ (ok /\ s.kind \in WriteKinds)
                 => /\ Envelope.columns = <<>>
                    /\ Envelope.data = <<>>

\* SELECT * FROM flights returned the ten seeded rows and the added one
C9_Witness ==
    /\ Returned
    /\ Envelope.success
    /\ Invoked = [db_name |-> "flights", query |-> "SELECT * FROM flights"]
    /\ Len(Envelope.data) = FlightsSeedRows + 1

\* C10: when an INSERT, UPDATE or DELETE submitted through query_database
\* returns success = true, its change is in the file after the call, for
\* every later connection to see.
C10_SuccessfulWriteIsPersistent ==
    (/\ Returned
     /\ Envelope.success
     /\ Parse(Invoked.query).kind \in {"INSERT", "UPDATE", "DELETE"})
    => files[DATABASES[Invoked.db_name]]
          = StepEffect(last.before[1][DATABASES[Invoked.db_name]], Parse(Invoked.query)).tables

====
